---------------------------- MODULE Spec2Model ----------------------------
(***************************************************************************)
(* The scan endpoint of secretsniffer (api/src/functions/scanRepo.js):     *)
(* the HTTP handler that validates a repository URL, creates a temporary   *)
(* directory, clones, scans (a mock of Gitleaks), formats the findings and *)
(* removes the directory in a finally block.  Several requests are served  *)
(* at once; every await of the handler is a step of its request.           *)
(*                                                                         *)
(* JavaScript strings are TLA+ strings, taken as the sequences of          *)
(* characters they are, so that includes and toLowerCase are computed.     *)
(***************************************************************************)
EXTENDS Integers, Sequences, FiniteSets

\* ------------------------------------------------------------------ bounds

\* Number of scan requests the function host serves (possibly at once).
NumRequests == 2

\* ------------------------------------------------------- JavaScript values

\* A JavaScript value: undefined/null, a string, or a number.
Undef == [t |-> "undef", v |-> ""]
Str(s) == [t |-> "str", v |-> s]
Num == [t |-> "num", v |-> ""]

\* !x of the handler: undefined, null and the empty string are falsy; the
\* number used here (42) and every non-empty string are truthy.
IsFalsy(x) == x.t = "undef" \/ (x.t = "str" /\ x.v = "")

\* String.prototype.includes(p): p occurs in s as a contiguous, case-sensitive
\* substring.
Includes(s, p) == \E i \in 0..(Len(s) - Len(p)) : SubSeq(s, i + 1, i + Len(p)) = p

\* String.prototype.toLowerCase on the letters the inputs use.
UpperLetters == "ABCDEFGHIJKLMNOPQRSTUVWXYZ"
LowerLetters == "abcdefghijklmnopqrstuvwxyz"
CharAt(s, i) == SubSeq(s, i, i)
LowerChar(c) ==
    IF \E i \in 1..Len(UpperLetters) : CharAt(UpperLetters, i) = c
    THEN CharAt(LowerLetters, CHOOSE i \in 1..Len(UpperLetters) : CharAt(UpperLetters, i) = c)
    ELSE c
RECURSIVE toLowerCase(_)
toLowerCase(s) ==
    IF s = "" THEN "" ELSE LowerChar(CharAt(s, 1)) \o toLowerCase(SubSeq(s, 2, Len(s)))

\* String(x) as the + operator applies it to an operand.
JsString(x) == IF x.t = "undef" THEN "undefined" ELSE IF x.t = "num" THEN "42" ELSE x.v

\* ------------------------------------------------------------ the requests

Requests == 1..NumRequests

\* The methods the handler tells apart: GET and POST, for which it is
\* registered, and OPTIONS, which it answers first of all when the host hands
\* it one.
Methods == {"GET", "POST", "OPTIONS"}

\* What request.json() finds in a POST: a JSON object, the JSON value null, or
\* text that is no JSON ("none": the request has no body, as a GET has none).
BodyKinds == {"none", "object", "null", "malformed"}

GithubHost == "github.com"

UrlNotAUrl == "not-a-url"
UrlValid == "https://github.com/acme/app"
UrlUpperHost == "https://GitHub.com/acme/app"
UrlInPath == "https://evil.io/github.com"
UrlLongerHost == "https://github.com.evil.io/x"
UrlUserinfo == "https://github.com@evil.io/x"
UrlInQuery == "https://evil.io/?q=github.com"

UrlStrings ==
    {"", UrlNotAUrl, UrlValid, UrlUpperHost, UrlInPath, UrlLongerHost,
     UrlUserinfo, UrlInQuery}

\* The values the repoUrl field or query parameter can hold.
UrlValues == {Undef, Num} \cup {Str(s) : s \in UrlStrings}

\* The requests the host can hand to the handler.  A GET has no body and its
\* query parameter is a string or absent; a POST has a body, whose repoUrl field
\* is read only when the body is an object; an OPTIONS request has either.
RequestInputs ==
    {i \in [method : Methods, bodyKind : BodyKinds, repoUrl : UrlValues] :
        /\ i.method = "GET" => i.bodyKind = "none"
        /\ i.method = "POST" => i.bodyKind # "none"
        /\ i.bodyKind = "none" => i.repoUrl.t # "num"
        /\ i.bodyKind \in {"null", "malformed"} => i.repoUrl = Undef}

\* One request for each way the handler treats its input, for the runs that
\* serve several requests at once.
ConcurrentInputs ==
    {[method |-> "OPTIONS", bodyKind |-> "none", repoUrl |-> Undef],
     [method |-> "GET", bodyKind |-> "none", repoUrl |-> Undef],
     [method |-> "POST", bodyKind |-> "malformed", repoUrl |-> Undef],
     [method |-> "POST", bodyKind |-> "object", repoUrl |-> Str(UrlNotAUrl)],
     [method |-> "POST", bodyKind |-> "object", repoUrl |-> Str(UrlValid)]}

\* --------------------------------------------------------- the normalizer

HighSeverityPatterns == {"private-key", "aws-access-token", "database-password"}
MediumSeverityPatterns == {"api-key", "github-pat", "jwt"}

\* determineSeverity with the high patterns tried after the medium ones.
determineSeverityMediumFirst(description, ruleId) ==
    LET desc == toLowerCase(JsString(description) \o " " \o JsString(ruleId))
    IN  IF \E p \in MediumSeverityPatterns : Includes(desc, p) THEN "medium"
        ELSE IF \E p \in HighSeverityPatterns : Includes(desc, p) THEN "high"
        ELSE "low"

\* determineSeverity(description, ruleId): description and ruleId are JavaScript
\* values, joined by one space and lower-cased.
determineSeverity(description, ruleId) ==
    LET desc == toLowerCase(JsString(description) \o " " \o JsString(ruleId))
    IN  IF \E p \in HighSeverityPatterns : Includes(desc, p) THEN "high"
        ELSE IF \E p \in MediumSeverityPatterns : Includes(desc, p) THEN "medium"
        ELSE "low"

\* typeMap of mapSecretType, as the set of its <<rule id, secret type>> entries.
TypeMap ==
    {<<"generic-api-key", "API Key">>,
     <<"aws-access-token", "AWS Access Key">>,
     <<"github-pat", "GitHub Token">>,
     <<"slack-bot-token", "Slack Bot Token">>,
     <<"discord-bot-token", "Discord Bot Token">>,
     <<"database-password", "Database Password">>,
     <<"private-key", "Private Key">>,
     <<"jwt", "JWT Token">>}

\* mapSecretType with the description tried before the table.
mapSecretTypeDescriptionFirst(description, ruleId) ==
    IF ~IsFalsy(description) THEN description.v
    ELSE IF ruleId.t = "str" /\ \E e \in TypeMap : e[1] = ruleId.v
    THEN (CHOOSE e \in TypeMap : e[1] = ruleId.v)[2]
    ELSE "Unknown Secret"

\* typeMap[ruleId] || description || 'Unknown Secret'
mapSecretType(description, ruleId) ==
    IF ruleId.t = "str" /\ \E e \in TypeMap : e[1] = ruleId.v
    THEN (CHOOSE e \in TypeMap : e[1] = ruleId.v)[2]
    ELSE IF ~IsFalsy(description) THEN description.v
    ELSE "Unknown Secret"

\* The two findings runGitleaksScan resolves with (the fields the normalizer
\* derives from; Match, Entropy, Author and Date are copied as they are).
MockResults ==
    << [Description |-> Str("Generic API Key"),
        RuleID |-> Str("generic-api-key"),
        File |-> "config/settings.py",
        StartLine |-> 15,
        Commit |-> Str("a1b2c3d4e5f6789012345678901234567890abcd")],
       [Description |-> Str("AWS Access Key"),
        RuleID |-> Str("aws-access-token"),
        File |-> ".env",
        StartLine |-> 23,
        Commit |-> Str("b2c3d4e5f6789012345678901234567890abcdef")] >>

\* The text a scan resolves with: JSON text holding a list of findings, JSON
\* text holding a value that is no list (null, an object), or text that is no
\* JSON.  JSON.parse gives the value back or throws.
JsonText(val) == [wellFormed |-> TRUE, list |-> TRUE, val |-> val]
JsonNonList == [wellFormed |-> TRUE, list |-> FALSE, val |-> <<>>]
MockOutput == JsonText(MockResults)

\* substring(1, n + 1): n characters, from the second on.
SubstringFromSecond(s, n) == SubSeq(s, 2, IF n + 1 < Len(s) THEN n + 1 ELSE Len(s))

\* String.prototype.substring(0, n)
Substring0(s, n) == SubSeq(s, 1, IF n < Len(s) THEN n ELSE Len(s))

\* String.prototype.split('/').pop(): what follows the last '/'.
LastSegment(s) ==
    IF \E i \in 1..Len(s) : CharAt(s, i) = "/"
    THEN LET k == CHOOSE i \in 1..Len(s) :
                      /\ CharAt(s, i) = "/"
                      /\ \A j \in (i + 1)..Len(s) : CharAt(s, j) # "/"
         IN  SubSeq(s, k + 1, Len(s))
    ELSE s

\* String.prototype.replace(p, ''): the first occurrence of p removed.
RemoveFirst(s, p) ==
    IF Includes(s, p)
    THEN LET k == CHOOSE i \in 0..(Len(s) - Len(p)) :
                      /\ SubSeq(s, i + 1, i + Len(p)) = p
                      /\ \A j \in 0..(i - 1) : SubSeq(s, j + 1, j + Len(p)) # p
         IN  SubSeq(s, 1, k) \o SubSeq(s, k + Len(p) + 1, Len(s))
    ELSE s

NoReport ==
    [repoName |-> "", totalSecrets |-> 0 - 1, findings |-> <<>>,
     scanEngine |-> "", version |-> ""]

\* The id of a finding taken as the zero-based index map hands over.
FindingIdZeroBased(position) == position - 1

\* id: index + 1, where index is the zero-based index map hands over and
\* position, which counts from 1, is the place of the finding in the list.
FindingId(position) == position

\* formatScanResults(scanOutput, repoUrl): the report, or the error it throws
\* when JSON.parse, split, map (of a value that is no list), or substring of a
\* finding's Commit throws.
formatScanResults(scanOutput, repoUrl) ==
    IF \/ ~scanOutput.wellFormed
       \/ repoUrl.t # "str"
       \/ ~scanOutput.list
       \/ \E i \in 1..Len(scanOutput.val) : scanOutput.val[i].Commit.t # "str"
    THEN [ok |-> FALSE, report |-> NoReport]
    ELSE LET findings == scanOutput.val
             formattedFindings ==
                 [index \in 1..Len(findings) |->
                     [id |-> FindingId(index),
                      file |-> findings[index].File,
                      commit |-> Substring0(findings[index].Commit.v, 7),
                      secretType |-> mapSecretType(findings[index].Description,
                                                   findings[index].RuleID),
                      severity |-> determineSeverity(findings[index].Description,
                                                     findings[index].RuleID),
                      lineNumber |-> findings[index].StartLine]]
         IN  [ok |-> TRUE,
              report |->
                  [repoName |-> RemoveFirst(LastSegment(repoUrl.v), ".git"),
                   totalSecrets |-> Len(formattedFindings),
                   findings |-> formattedFindings,
                   scanEngine |-> "Gitleaks",
                   version |-> "8.18.0"]]

\* ------------------------------------------------------------ the scanner

\* How the Gitleaks engine would end on the cloned repository: exit code 0 (no
\* secrets), 1 (secrets found), another code, or a process that cannot start.
EngineOutcomes == {"exit0", "exit1", "exit2", "startError"}

\* The engine outcomes of the runs that serve several requests at once.
ConcurrentEngines == {"exit0", "exit1"}

\* The delay of the mock scan's timer, in milliseconds.
MockDelay == 2000

\* The wall-clock budget of one scanner invocation, in milliseconds.
ScanTimeout == 60000

\* How long the invocation takes: the timer fires after MockDelay at the
\* earliest, and as late as the host lets it.
ElapsedTimes == {MockDelay, ScanTimeout + 1}

\* runGitleaksScan(repoPath, context): the engine is not spawned and no timer
\* bounds the call; the promise resolves with the mock findings whatever the
\* engine would report and however long the timer takes.
runGitleaksScan(engine, elapsedMs) == [ok |-> TRUE, output |-> MockOutput]

\* ------------------------------------------------------------ the handler

\* createTempDirectory with one fixed directory for every request.
createTempDirectoryFixed(unused) == 1

\* createTempDirectory(): tmp.dir makes a directory of a name not in use, here
\* the next of the names never used.
createTempDirectory(unused) == unused

\* cleanupTempDirectory when fs.rm fails and the catch block throws again.
cleanupTempDirectoryRethrows(rmOk) == [removed |-> rmOk, threw |-> ~rmOk]

\* cleanupTempDirectory that removes nothing.
cleanupTempDirectoryNoRemove(rmOk) == [removed |-> FALSE, threw |-> FALSE]

\* cleanupTempDirectory(tmpDir, context): fs.rm removes the directory or fails;
\* the failure is logged and not thrown.
cleanupTempDirectory(rmOk) == [removed |-> rmOk, threw |-> FALSE]

\* The handler that answers first and cleans up afterwards (a cleanup that is
\* not awaited).
ExitPathRespondFirst == <<"respond", "cleanup", "done">>

\* What follows the inner try block: the finally block awaits the cleanup,
\* then the value returned or the error thrown leaves the handler as its
\* response, and the request is done.
ExitPath == <<"cleanup", "respond", "done">>

\* The stage that follows a stage of the exit path.
Following(stage) ==
    LET i == CHOOSE k \in 1..Len(ExitPath) : ExitPath[k] = stage
    IN  IF i < Len(ExitPath) THEN ExitPath[i + 1] ELSE "done"

\* The handler with cleanup at the end of the try block instead of in finally.
AfterTryNoFinally(kind) == IF kind = "return" THEN "cleanup" ELSE "respond"

\* try { ... } finally { await cleanupTempDirectory(...) }: the stage that
\* follows the inner try block, however it ended ("return" or "throw").
AfterTry(kind) == ExitPath[1]

\* The awaits of the inner try block with the scan before the clone.
TryBlockScanFirst == <<"scan", "clone", "format">>

\* The awaits of the inner try block, in the order of its statements:
\* cloneRepository, runGitleaksScan, formatScanResults.
TryBlock == <<"clone", "scan", "format">>

\* The stage that follows a stage of the try block that did not throw.
StageAfter(stage) ==
    LET i == CHOOSE k \in 1..Len(TryBlock) : TryBlock[k] = stage
    IN  IF i < Len(TryBlock) THEN TryBlock[i + 1] ELSE AfterTry("return")

\* repoUrl.includes('github.com') of a string repoUrl.
ValidateUrl(repoUrl) == Includes(repoUrl.v, GithubHost)

\* !repoUrl that misses the empty string.
MissingUrlUndefOnly(repoUrl) == repoUrl.t = "undef"

\* if (!repoUrl)
MissingUrl(repoUrl) == IsFalsy(repoUrl)

\* The handler with the OPTIONS branch after the extraction and validation of
\* repoUrl.
ValidationPreflightLast(in) ==
    IF in.bodyKind \in {"null", "malformed"} THEN "throw"
    ELSE IF MissingUrl(in.repoUrl) THEN "required"
    ELSE IF in.repoUrl.t # "str" THEN "throw"
    ELSE IF ~ValidateUrl(in.repoUrl) THEN "invalid"
    ELSE IF in.method = "OPTIONS" THEN "preflight"
    ELSE "proceed"

\* The handler from its entry to the call of createTempDirectory:
\*   "preflight"  the OPTIONS branch
\*   "throw"      request.json() rejects, body.repoUrl of null, or
\*                repoUrl.includes of a value that has no such method
\*   "required"   the 400 of a missing URL
\*   "invalid"    the 400 of a URL without 'github.com'
\*   "proceed"    the pipeline starts
Validation(in) ==
    IF in.method = "OPTIONS" THEN "preflight"
    ELSE IF in.method = "POST" /\ in.bodyKind # "object" THEN "throw"
    ELSE IF MissingUrl(in.repoUrl) THEN "required"
    ELSE IF in.repoUrl.t # "str" THEN "throw"
    ELSE IF ~ValidateUrl(in.repoUrl) THEN "invalid"
    ELSE "proceed"

\* corsHeaders, the headers of every response of the handler.
CorsHeaders ==
    [allowOrigin |-> "*", allowMethods |-> "GET, POST, OPTIONS",
     allowHeaders |-> "Content-Type, Authorization",
     contentType |-> "application/json"]
NoHeaders ==
    [allowOrigin |-> "", allowMethods |-> "", allowHeaders |-> "", contentType |-> ""]

\* A response: status, headers, and the body, which is empty, the report, or
\* an object of error, message and (where defined) details.
NoResponse ==
    [status |-> 0, headers |-> NoHeaders, error |-> "", message |-> "",
     details |-> Undef, body |-> "none", report |-> NoReport]
PreflightResponse ==
    [status |-> 200, headers |-> CorsHeaders, error |-> "", message |-> "",
     details |-> Undef, body |-> "empty", report |-> NoReport]
RequiredResponse ==
    [status |-> 400, headers |-> CorsHeaders, error |-> "Repository URL is required",
     message |-> "Please provide a valid GitHub repository URL",
     details |-> Undef, body |-> "error", report |-> NoReport]
InvalidResponse ==
    [status |-> 400, headers |-> CorsHeaders, error |-> "Invalid repository URL",
     message |-> "Please provide a valid GitHub repository URL",
     details |-> Undef, body |-> "error", report |-> NoReport]
ServerErrorResponse ==
    [status |-> 500, headers |-> CorsHeaders, error |-> "Internal server error",
     message |-> "Failed to scan repository. Please try again later.",
     details |-> Undef, body |-> "error", report |-> NoReport]
SuccessResponse(report) ==
    [status |-> 200, headers |-> CorsHeaders, error |-> "", message |-> "",
     details |-> Undef, body |-> "report", report |-> report]

\* The values of process.env.NODE_ENV: 'development', 'production', or unset.
NodeEnvs == {Str("development"), Str("production"), Undef}

\* NODE_ENV of the runs that serve several requests at once: the one in which
\* a 500 shows the error it answers for.
ConcurrentEnvs == {Str("development")}

\* The messages of the errors the handler's outer catch receives.  The name of
\* a temporary directory is the text '/tmp/tmp-' and its number; git writes it
\* to the standard error that simple-git makes the message of its error.
DirPath(dir) == "/tmp/tmp-" \o CharAt("123456789", dir)
JsonError == "Unexpected token o in JSON at position 1"
NullBodyError == "Cannot read properties of null (reading 'repoUrl')"
IncludesError == "repoUrl.includes is not a function"
TmpError == "ENOSPC: no space left on device, mkdir '/tmp/tmp-0'"
GitError(dir) == "Cloning into '" \o DirPath(dir) \o "'... fatal: repository not found"
CloneError(dir) == "Failed to clone repository: " \o GitError(dir)
ScanError == "Failed to start Gitleaks: spawn gitleaks ENOENT"
FormatError == "Failed to process scan results"
RmError == "EBUSY: resource busy or locked, rmdir"

\* What the handler throws before createTempDirectory is called, for the
\* inputs of which Validation is "throw".
ValidationError(in) ==
    IF in.bodyKind = "malformed" THEN JsonError
    ELSE IF in.bodyKind = "null" THEN NullBodyError
    ELSE IncludesError

\* The catch block with the details in every environment.
ErrorDetailsAlways(env, message) == Str(message)

\* details: process.env.NODE_ENV === 'development' ? error.message : undefined
ErrorDetails(env, message) == IF env = Str("development") THEN Str(message) ELSE Undef

\* The 500 response of the outer catch.
ServerError(env, message) ==
    [ServerErrorResponse EXCEPT !.details = ErrorDetails(env, message)]

NoInput == [method |-> "GET", bodyKind |-> "none", repoUrl |-> Undef]
NoDir == 0
NoPending == [kind |-> "none", report |-> NoReport, message |-> ""]
Return(report) == [kind |-> "return", report |-> report, message |-> ""]
Throw(message) == [kind |-> "throw", report |-> NoReport, message |-> message]

VARIABLES
    pc,            \* [Requests -> stage]: where each request's handler stands
    input,         \* the request as received
    tmpDir,        \* the directory createTempDirectory resolved with, or NoDir
    disk,          \* the temporary directories that exist
    nextDir,       \* the next unused directory name
    clonedOk,      \* the clone into tmpDir completed
    engine,        \* how the engine would end on the clone
    elapsed,       \* how long the scanner invocation took
    scanOutput,    \* what runGitleaksScan resolved with
    pending,       \* how the inner try block ended, while finally runs
    cleanupCalls,  \* calls of cleanupTempDirectory for the request
    rmFailed,      \* fs.rm failed in the request's cleanup
    response,      \* the response returned, or NoResponse
    nodeEnv,       \* process.env.NODE_ENV
    trail,         \* the steps each request's handler has taken, in order
    sevIn,         \* arguments of determineSeverity
    sevOut,        \* its result, or "none"
    mapIn,         \* arguments of mapSecretType
    mapOut,        \* its result, or "none"
    fmtIn,         \* arguments of formatScanResults
    fmtOut         \* its result, or NoResult

reqVars ==
    <<pc, input, tmpDir, disk, nextDir, clonedOk, engine, elapsed, scanOutput,
      pending, cleanupCalls, rmFailed, response, nodeEnv, trail>>
sevVars == <<sevIn, sevOut>>
fmtVars == <<fmtIn, fmtOut>>
mapVars == <<mapIn, mapOut>>
pureVars == <<sevVars, mapVars, fmtVars>>
vars == <<reqVars, pureVars>>

NoOutput == [wellFormed |-> FALSE, list |-> FALSE, val |-> <<>>]
NoSeverityInput == [description |-> Undef, ruleId |-> Undef]
NoFormatInput == [scanOutput |-> NoOutput, repoUrl |-> Undef]
NoResult == [ok |-> FALSE, report |-> NoReport, called |-> FALSE]

InitRequests ==
    /\ pc = [r \in Requests |-> "idle"]
    /\ input = [r \in Requests |-> NoInput]
    /\ tmpDir = [r \in Requests |-> NoDir]
    /\ disk = {}
    /\ nextDir = 1
    /\ clonedOk = [r \in Requests |-> FALSE]
    /\ engine = [r \in Requests |-> "none"]
    /\ elapsed = [r \in Requests |-> 0]
    /\ scanOutput = [r \in Requests |-> NoOutput]
    /\ pending = [r \in Requests |-> NoPending]
    /\ cleanupCalls = [r \in Requests |-> 0]
    /\ rmFailed = [r \in Requests |-> FALSE]
    /\ response = [r \in Requests |-> NoResponse]
    /\ trail = [r \in Requests |-> <<>>]

\* No helper function is called on its own.
InitPure ==
    /\ sevIn = NoSeverityInput
    /\ sevOut = "none"
    /\ mapIn = NoSeverityInput
    /\ mapOut = "none"
    /\ fmtIn = NoFormatInput
    /\ fmtOut = NoResult

Init ==
    /\ InitRequests
    /\ nodeEnv \in ConcurrentEnvs
    /\ InitPure

InitInputs ==
    /\ InitRequests
    /\ nodeEnv \in NodeEnvs
    /\ InitPure

\* The handler is called with a request of `inputs` and runs to its first
\* pending operation: a response (preflight, 400, or the 500 of the outer
\* catch) or the call of createTempDirectory.
ReceiveFrom(r, inputs) ==
    /\ pc[r] = "idle"
    /\ \E in \in inputs :
        /\ input' = [input EXCEPT ![r] = in]
        /\ LET v == Validation(in)
           IN  /\ pc' = [pc EXCEPT ![r] = IF v = "proceed" THEN "acquire" ELSE "done"]
               /\ trail' = [trail EXCEPT ![r] =
                     IF v = "proceed" THEN <<"validate">>
                     ELSE IF v = "preflight" THEN <<"respond">>
                     ELSE <<"validate", "respond">>]
               /\ response' = [response EXCEPT ![r] =
                     CASE v = "preflight" -> PreflightResponse
                       [] v = "throw" -> ServerError(nodeEnv, ValidationError(in))
                       [] v = "required" -> RequiredResponse
                       [] v = "invalid" -> InvalidResponse
                       [] OTHER -> NoResponse]
    /\ UNCHANGED <<tmpDir, disk, nextDir, clonedOk, engine, elapsed, scanOutput,
                   pending, cleanupCalls, rmFailed, nodeEnv, pureVars>>

Receive(r) == ReceiveFrom(r, ConcurrentInputs)

ReceiveAny(r) == ReceiveFrom(r, RequestInputs)

\* createTempDirectory resolves with the directory tmp.dir made.
AcquireOk(r) ==
    /\ pc[r] = "acquire"
    /\ LET path == createTempDirectory(nextDir)
       IN  /\ tmpDir' = [tmpDir EXCEPT ![r] = path]
           /\ disk' = disk \cup {path}
    /\ nextDir' = nextDir + 1
    /\ pc' = [pc EXCEPT ![r] = TryBlock[1]]
    /\ trail' = [trail EXCEPT ![r] = Append(@, "acquire")]
    /\ UNCHANGED <<input, clonedOk, engine, elapsed, scanOutput, pending,
                   cleanupCalls, rmFailed, response, nodeEnv,
                   pureVars>>

\* createTempDirectory rejects: the outer catch answers 500.
AcquireFail(r) ==
    /\ pc[r] = "acquire"
    /\ response' = [response EXCEPT ![r] = ServerError(nodeEnv, TmpError)]
    /\ pc' = [pc EXCEPT ![r] = "done"]
    /\ trail' = [trail EXCEPT ![r] = @ \o <<"acquire", "respond">>]
    /\ UNCHANGED <<input, tmpDir, disk, nextDir, clonedOk, engine, elapsed,
                   scanOutput, pending, cleanupCalls, rmFailed, nodeEnv, pureVars>>

\* cloneRepository: git.clone into tmpDir completes.
CloneOk(r) ==
    /\ pc[r] = "clone"
    /\ clonedOk' = [clonedOk EXCEPT ![r] = TRUE]
    /\ pc' = [pc EXCEPT ![r] = StageAfter("clone")]
    /\ trail' = [trail EXCEPT ![r] = Append(@, "clone")]
    /\ UNCHANGED <<input, tmpDir, disk, nextDir, engine, elapsed, scanOutput,
                   pending, cleanupCalls, rmFailed, response, nodeEnv,
                   pureVars>>

\* cloneRepository: git.clone fails and the error is thrown on.
CloneFail(r) ==
    /\ pc[r] = "clone"
    /\ pending' = [pending EXCEPT ![r] = Throw(CloneError(tmpDir[r]))]
    /\ pc' = [pc EXCEPT ![r] = AfterTry("throw")]
    /\ trail' = [trail EXCEPT ![r] = Append(@, "clone")]
    /\ UNCHANGED <<input, tmpDir, disk, nextDir, clonedOk, engine, elapsed,
                   scanOutput, cleanupCalls, rmFailed, response, nodeEnv,
                   pureVars>>

\* runGitleaksScan settles, in an environment of `engines` and `times`.
ScanIn(r, engines, times) ==
    /\ pc[r] = "scan"
    /\ \E e \in engines, ms \in times :
        /\ engine' = [engine EXCEPT ![r] = e]
        /\ elapsed' = [elapsed EXCEPT ![r] = ms]
        /\ LET res == runGitleaksScan(e, ms)
           IN  IF res.ok
               THEN /\ scanOutput' = [scanOutput EXCEPT ![r] = res.output]
                    /\ pc' = [pc EXCEPT ![r] = StageAfter("scan")]
                    /\ UNCHANGED pending
               ELSE /\ pending' = [pending EXCEPT ![r] = Throw(ScanError)]
                    /\ pc' = [pc EXCEPT ![r] = AfterTry("throw")]
                    /\ UNCHANGED scanOutput
    /\ trail' = [trail EXCEPT ![r] = Append(@, "scan")]
    /\ UNCHANGED <<input, tmpDir, disk, nextDir, clonedOk, cleanupCalls,
                   rmFailed, response, nodeEnv,
                   pureVars>>

Scan(r) == ScanIn(r, ConcurrentEngines, {MockDelay})

ScanAny(r) == ScanIn(r, EngineOutcomes, ElapsedTimes)

\* formatScanResults, then the return of the try block (or its throw).
Format(r) ==
    /\ pc[r] = "format"
    /\ LET res == formatScanResults(scanOutput[r], input[r].repoUrl)
       IN  /\ pending' = [pending EXCEPT ![r] =
                 IF res.ok THEN Return(res.report)
                 ELSE Throw(FormatError)]
           /\ pc' = [pc EXCEPT ![r] = AfterTry(IF res.ok THEN "return" ELSE "throw")]
    /\ trail' = [trail EXCEPT ![r] = Append(@, "format")]
    /\ UNCHANGED <<input, tmpDir, disk, nextDir, clonedOk, engine, elapsed,
                   scanOutput, cleanupCalls, rmFailed, response, nodeEnv,
                   pureVars>>

\* The finally block: cleanupTempDirectory(tmpDir), whose fs.rm removes the
\* directory (rmOk) or fails.
Cleanup(r) ==
    /\ pc[r] = "cleanup"
    /\ \E rmOk \in BOOLEAN :
        LET c == cleanupTempDirectory(rmOk)
        IN  /\ disk' = IF c.removed THEN disk \ {tmpDir[r]} ELSE disk
            /\ rmFailed' = [rmFailed EXCEPT ![r] = ~rmOk]
            /\ pending' = [pending EXCEPT ![r] =
                  IF c.threw THEN Throw(RmError) ELSE @]
    /\ cleanupCalls' = [cleanupCalls EXCEPT ![r] = @ + 1]
    /\ pc' = [pc EXCEPT ![r] = Following("cleanup")]
    /\ trail' = [trail EXCEPT ![r] = Append(@, "cleanup")]
    /\ UNCHANGED <<input, tmpDir, nextDir, clonedOk, engine, elapsed,
                   scanOutput, response, nodeEnv,
                   pureVars>>

\* After finally: the try block's return value is the response, or the outer
\* catch turns its error into the 500 response.
Respond(r) ==
    /\ pc[r] = "respond"
    /\ response' = [response EXCEPT ![r] =
          IF pending[r].kind = "return" THEN SuccessResponse(pending[r].report)
          ELSE ServerError(nodeEnv, pending[r].message)]
    /\ pc' = [pc EXCEPT ![r] = Following("respond")]
    /\ trail' = [trail EXCEPT ![r] = Append(@, "respond")]
    /\ UNCHANGED <<input, tmpDir, disk, nextDir, clonedOk, engine, elapsed,
                   scanOutput, pending, cleanupCalls, rmFailed, nodeEnv, pureVars>>

\* The steps of a request after the handler took it, the scan apart.
Pipeline(r) ==
    \/ AcquireOk(r)
    \/ AcquireFail(r)
    \/ CloneOk(r)
    \/ CloneFail(r)
    \/ Format(r)
    \/ Cleanup(r)
    \/ Respond(r)

\* NumRequests requests, served at once: one request of each kind of input,
\* scanned by an engine that exits in time with code 0 or 1.
Next == \E r \in Requests : Receive(r) \/ Scan(r) \/ Pipeline(r)

Spec == Init /\ [][Next]_vars

\* One request, of every input, in every environment of the scan.
NextInputs == ReceiveAny(1) \/ ScanAny(1) \/ Pipeline(1)

SpecInputs == InitInputs /\ [][NextInputs]_vars

\* ------------------------------------------ the mock variant of the handler

\* The other scanRepo handler of the repository, registered for POST only: it
\* reads the body, answers 400 when repoUrl is falsy and otherwise 200 with
\* fixed demo findings; the 500 is its catch of request.json() rejecting or of
\* destructuring null.
mockScanRepo(in) ==
    IF in.bodyKind # "object" THEN [status |-> 500, error |-> "Internal server error"]
    ELSE IF IsFalsy(in.repoUrl)
         THEN [status |-> 400, error |-> "Repository URL is required"]
         ELSE [status |-> 200, error |-> ""]

\* -------------------------------------------- determineSeverity on its own

SevDescriptions ==
    {Undef, Str(""), Str("Generic API Key"), Str("AWS Access Key"),
     Str("Generic Api Key"), Str("PRIVATE-KEY in file"), Str("JWT"),
     Str("private"), Str("Database-Password")}

SevRuleIds ==
    {Undef, Str("generic-api-key"), Str("aws-access-token"), Str("github-pat"),
     Str("jwt"), Str("private-key"), Str("database-password"),
     Str("slack-bot-token"), Str("custom-rule"), Str("-key")}

InitSeverity ==
    /\ InitRequests
    /\ nodeEnv = Undef
    /\ sevIn \in [description : SevDescriptions, ruleId : SevRuleIds]
    /\ sevOut = "none"
    /\ mapIn = NoSeverityInput
    /\ mapOut = "none"
    /\ fmtIn = NoFormatInput
    /\ fmtOut = NoResult

\* determineSeverity is called with the arguments drawn.
ApplySeverity ==
    /\ sevOut = "none"
    /\ sevOut' = determineSeverity(sevIn.description, sevIn.ruleId)
    /\ UNCHANGED <<reqVars, sevIn, mapVars, fmtVars>>

SpecSeverity == InitSeverity /\ [][ApplySeverity]_vars

\* ------------------------------------------------ mapSecretType on its own

\* Rule identifiers: the eight of the table, one of them in other case, others
\* the table does not have, the empty string and none.
MapRuleIds ==
    {Str(e[1]) : e \in TypeMap}
        \cup {Undef, Str(""), Str("custom-rule"), Str("Generic-API-Key"), Str("aws")}

MapDescriptions ==
    {Undef, Str(""), Str("Generic API Key"), Str("AWS Access Key"),
     Str("Stripe key"), Str("aws-access-token"), Str("Unknown Secret")}

InitSecretType ==
    /\ InitRequests
    /\ nodeEnv = Undef
    /\ sevIn = NoSeverityInput
    /\ sevOut = "none"
    /\ mapIn \in [description : MapDescriptions, ruleId : MapRuleIds]
    /\ mapOut = "none"
    /\ fmtIn = NoFormatInput
    /\ fmtOut = NoResult

\* mapSecretType is called with the arguments drawn.
ApplySecretType ==
    /\ mapOut = "none"
    /\ mapOut' = mapSecretType(mapIn.description, mapIn.ruleId)
    /\ UNCHANGED <<reqVars, sevVars, mapIn, fmtVars>>

SpecSecretType == InitSecretType /\ [][ApplySecretType]_vars

\* -------------------------------------------- formatScanResults on its own

\* Findings as well-formed engine output can hold them: without a commit
\* identifier, without description and rule id, with a commit shorter than 7
\* characters, with the empty commit of a scan without history, and with a
\* 40-character commit and a rule the table does not have.
FindingNoCommit == [MockResults[2] EXCEPT !.Commit = Undef]
FindingBare ==
    [Description |-> Undef, RuleID |-> Undef, File |-> "notes.txt", StartLine |-> 1,
     Commit |-> Str("0123456789abcdef0123456789abcdef01234567")]
FindingShortCommit == [MockResults[1] EXCEPT !.Commit = Str("abc12")]
FindingEmptyCommit == [MockResults[1] EXCEPT !.Commit = Str("")]
FindingCustomRule ==
    [Description |-> Str("Stripe key"), RuleID |-> Str("custom-rule"),
     File |-> "pay.js", StartLine |-> 7,
     Commit |-> Str("c3d4e5f6789012345678901234567890abcdef01")]

\* The texts a scan can hand to formatScanResults.
FormatOutputs ==
    {NoOutput, JsonNonList, JsonText(<<>>), MockOutput,
     JsonText(<<MockResults[2]>>),
     JsonText(<<FindingNoCommit>>),
     JsonText(<<FindingBare, FindingCustomRule>>),
     JsonText(<<FindingShortCommit, FindingEmptyCommit, MockResults[2]>>)}

UrlDotGit == "https://github.com/acme/app.git"
UrlTrailingSlash == "https://github.com/acme/app/"
UrlGitInside == "https://github.com/acme/my.git.tools"
UrlGitInsideDotGit == "https://github.com/acme/my.git.tools.git"
UrlBareHost == "github.com"

\* The repoUrl arguments: the strings that pass the handler's validation, and
\* two values the function can be called with directly.
FormatUrls ==
    {Str(UrlValid), Str(UrlDotGit), Str(UrlTrailingSlash), Str(UrlGitInside),
     Str(UrlGitInsideDotGit), Str(UrlBareHost), Str(UrlNotAUrl), Num}

InitFormat ==
    /\ InitRequests
    /\ nodeEnv = Undef
    /\ sevIn = NoSeverityInput
    /\ sevOut = "none"
    /\ mapIn = NoSeverityInput
    /\ mapOut = "none"
    /\ fmtIn \in [scanOutput : FormatOutputs, repoUrl : FormatUrls]
    /\ fmtOut = NoResult

\* formatScanResults is called with the arguments drawn.
ApplyFormat ==
    /\ ~fmtOut.called
    /\ LET res == formatScanResults(fmtIn.scanOutput, fmtIn.repoUrl)
       IN  fmtOut' = [ok |-> res.ok, report |-> res.report, called |-> TRUE]
    /\ UNCHANGED <<reqVars, sevVars, mapVars, fmtIn>>

SpecFormat == InitFormat /\ [][ApplyFormat]_vars

\* ------------------------------------------------------------- the claims

Acquired(r) == tmpDir[r] # NoDir
Done(r) == pc[r] = "done"

\* C1: a request that acquired a workspace has cleanupTempDirectory called for
\* it exactly once by the time it completes (never twice at any time), whether
\* the try block returned or threw; a request that acquired no workspace has
\* it never called.
C1_CleanupExactlyOnce ==
    \A r \in Requests :
        /\ cleanupCalls[r] <= 1
        /\ ~Acquired(r) => cleanupCalls[r] = 0
        /\ Acquired(r) /\ (Done(r) \/ response[r] # NoResponse) => cleanupCalls[r] = 1

\* C1's case: one request completed after its clone failed, another after the
\* whole pipeline succeeded, each with its cleanup called once.
C1_Witness ==
    \E r1, r2 \in Requests :
        /\ Done(r1) /\ Acquired(r1) /\ ~clonedOk[r1] /\ response[r1].status = 500
        /\ cleanupCalls[r1] = 1
        /\ Done(r2) /\ Acquired(r2) /\ response[r2].status = 200
        /\ cleanupCalls[r2] = 1

\* C2 as stated: once a request is complete, the directory created for it is
\* not on disk.
C2_NoWorkspaceRemains ==
    \A r \in Requests : Done(r) /\ Acquired(r) => tmpDir[r] \notin disk

\* C2 as amended: once a request is complete, the directory created for it is
\* on disk exactly when fs.rm failed in its cleanup.
C2_RemainsOnlyIfRmFailed ==
    \A r \in Requests :
        Done(r) /\ Acquired(r) => (tmpDir[r] \in disk <=> rmFailed[r])

\* C2's case: a request completed with 200 and another with 500, and neither
\* directory is left.
C2_Witness ==
    \E r1, r2 \in Requests :
        /\ Done(r1) /\ Acquired(r1) /\ response[r1].status = 200
        /\ Done(r2) /\ Acquired(r2) /\ response[r2].status = 500
        /\ tmpDir[r1] \notin disk /\ tmpDir[r2] \notin disk

\* C6: a GET or POST whose repoUrl is absent or empty (the POST's body being an
\* object) is answered 400 'Repository URL is required', by this handler and by
\* its mock variant, and nothing of the pipeline happens for it: no directory,
\* no clone, no scan, no cleanup.
C6_MissingUrlIs400 ==
    \A r \in Requests :
        LET in == input[r]
        IN  /\ pc[r] # "idle"
            /\ in.method \in {"GET", "POST"}
            /\ in.method = "POST" => in.bodyKind = "object"
            /\ in.repoUrl \in {Undef, Str("")}
            => /\ response[r] = RequiredResponse
               /\ pc[r] = "done"
               /\ ~Acquired(r) /\ disk = {} /\ ~clonedOk[r]
               /\ engine[r] = "none" /\ scanOutput[r] = NoOutput
               /\ cleanupCalls[r] = 0
               /\ in.method = "POST" =>
                     mockScanRepo(in) =
                         [status |-> 400, error |-> "Repository URL is required"]

\* C6's case: a POST whose body is an object with an empty repoUrl has been
\* answered.
C6_Witness ==
    /\ pc[1] = "done"
    /\ input[1] = [method |-> "POST", bodyKind |-> "object", repoUrl |-> Str("")]
    /\ response[1].status = 400

\* C8: the response does not depend on whether the cleanup succeeded: a
\* completed request that acquired a workspace answers 200 with the report of
\* its scan output when its clone succeeded and the 500 otherwise, and two
\* completed requests with the same input and the same clone outcome have the
\* same response, whatever fs.rm did for each (the details of a 500 in
\* development apart, which name each request's own directory).
C8_CleanupFailureNotPropagated ==
    /\ \A r \in Requests :
          Done(r) /\ Acquired(r) =>
              response[r] =
                  IF clonedOk[r]
                  THEN SuccessResponse(
                           formatScanResults(scanOutput[r], input[r].repoUrl).report)
                  ELSE ServerError(nodeEnv, CloneError(tmpDir[r]))
    /\ \A r1, r2 \in Requests :
          /\ Done(r1) /\ Done(r2) /\ Acquired(r1) /\ Acquired(r2)
          /\ input[r1] = input[r2] /\ clonedOk[r1] = clonedOk[r2]
          => /\ [response[r1] EXCEPT !.details = Undef] =
                  [response[r2] EXCEPT !.details = Undef]
             /\ response[r1].details = Undef <=> response[r2].details = Undef

\* C8's case: fs.rm failed for a request that answered 200 and for one that
\* answered 500.
C8_Witness ==
    \E r1, r2 \in Requests :
        /\ Done(r1) /\ rmFailed[r1] /\ response[r1].status = 200
        /\ response[r1].body = "report"
        /\ Done(r2) /\ rmFailed[r2] /\ response[r2].status = 500

\* The host of a URL, for the claims that speak of it: what stands between
\* '://' and the first '/', '?' or '#', after the last '@' and before the
\* first ':', in lower case (host names are case-insensitive).
FirstAt(s, p) ==
    CHOOSE i \in 0..(Len(s) - Len(p)) :
        /\ SubSeq(s, i + 1, i + Len(p)) = p
        /\ \A j \in 0..(i - 1) : SubSeq(s, j + 1, j + Len(p)) # p
AfterScheme(s) ==
    IF Includes(s, "://") THEN SubSeq(s, FirstAt(s, "://") + 4, Len(s)) ELSE s
UpTo(s, stops) ==
    LET at == {i \in 1..Len(s) : CharAt(s, i) \in stops}
    IN  IF at = {} THEN s
        ELSE SubSeq(s, 1, (CHOOSE i \in at : \A j \in at : i <= j) - 1)
AfterLast(s, c) ==
    LET at == {i \in 1..Len(s) : CharAt(s, i) = c}
    IN  IF at = {} THEN s
        ELSE SubSeq(s, (CHOOSE i \in at : \A j \in at : i >= j) + 1, Len(s))
UrlHost(s) ==
    toLowerCase(UpTo(AfterLast(UpTo(AfterScheme(s), {"/", "?", "#"}), "@"), {":"}))

\* A URL of a repository on GitHub: https, host github.com, a path.
IsGithubUrl(u) ==
    /\ u.t = "str"
    /\ Len(u.v) > 8 /\ toLowerCase(SubSeq(u.v, 1, 8)) = "https://"
    /\ UrlHost(u.v) = GithubHost
    /\ Includes(AfterScheme(u.v), "/")

Received(r) == pc[r] # "idle"
ScanRequest(r) == Received(r) /\ input[r].method \in {"GET", "POST"}
BodyRead(r) == input[r].method = "POST" => input[r].bodyKind = "object"

C5_HostValidation ==
    \A r \in Requests :
        /\ ScanRequest(r) /\ BodyRead(r)
        /\ input[r].repoUrl.t = "str" /\ UrlHost(input[r].repoUrl.v) # GithubHost
        => /\ response[r].status = 400
           /\ pc[r] = "done" /\ ~Acquired(r) /\ ~clonedOk[r]

\* C7 as stated: a completed scan request has one of the three outcomes; 400
\* exactly when the URL is missing, bad or of another host; 500 exactly when the
\* fetch, the scan or the normalization failed; 200 only after all three
\* succeeded, with the complete report of the scan output.
C7_TerminalOutcomes ==
    \A r \in Requests :
        Done(r) /\ ScanRequest(r) =>
            LET formatted == formatScanResults(scanOutput[r], input[r].repoUrl)
                badUrl == ~(BodyRead(r) /\ IsGithubUrl(input[r].repoUrl))
                stageFailed ==
                    Acquired(r) /\ (~clonedOk[r] \/ scanOutput[r] = NoOutput
                                    \/ ~formatted.ok)
            IN  /\ response[r].status \in {200, 400, 500}
                /\ response[r].status = 400 <=> badUrl
                /\ response[r].status = 500 <=> stageFailed
                /\ response[r].status = 200 =>
                      /\ clonedOk[r] /\ formatted.ok
                      /\ response[r].body = "report"
                      /\ response[r].report = formatted.report
                      /\ response[r].report.totalSecrets =
                             Len(response[r].report.findings)

\* C3 as stated: a scanner invocation that runs past its time budget is
\* terminated and fails (it hands no output on), its request ends with 500, and
\* the directory is removed.
C3_TimeoutFailsTheScan ==
    \A r \in Requests :
        elapsed[r] > ScanTimeout =>
            /\ scanOutput[r] = NoOutput
            /\ pc[r] # "format"
            /\ Done(r) => response[r].status = 500 /\ tmpDir[r] \notin disk

\* What the engine writes to standard output when it exits with code 1 on a
\* repository whose one secret is the AWS key on line 23 of .env.
EngineStdout == JsonText(<<MockResults[2]>>)

\* C9 as stated: once the scanner invocation has settled, exit code 0 has
\* given the empty list, exit code 1 the findings of the engine's standard
\* output, and any other exit code or a process that did not start a failed
\* scan and no findings.
C9_ExitCodeContract ==
    \A r \in Requests :
        /\ engine[r] = "exit0" => scanOutput[r] = JsonText(<<>>)
        /\ engine[r] = "exit1" => scanOutput[r] = EngineStdout
        /\ engine[r] \in {"exit2", "startError"} =>
              /\ scanOutput[r] = NoOutput
              /\ pc[r] # "format"
              /\ Done(r) => response[r].status = 500

\* The classification C10 states, on the lower-cased text of description, a
\* space and rule id: a pattern occurs at some position of the text.
OccursIn(text, p) ==
    \E i \in 1..Len(text) :
        /\ i + Len(p) - 1 <= Len(text)
        /\ \A k \in 1..Len(p) : CharAt(text, i + k - 1) = CharAt(p, k)
StatedSeverity(in) ==
    LET text == toLowerCase(JsString(in.description) \o " " \o JsString(in.ruleId))
    IN  CASE \E p \in HighSeverityPatterns : OccursIn(text, p) -> "high"
          [] /\ \A p \in HighSeverityPatterns : ~OccursIn(text, p)
             /\ \E p \in MediumSeverityPatterns : OccursIn(text, p) -> "medium"
          [] OTHER -> "low"

\* C10: determineSeverity returns high, medium or low for every description
\* and rule id (undefined ones included): high when the lower-cased text holds
\* a high pattern, even if it also holds a medium one; else medium when it
\* holds a medium pattern; else low.  Rule 'aws-access-token' gives high, rule
\* 'generic-api-key' medium (unless the description holds a high pattern), and
\* description 'Generic Api Key' with an unrecognized rule low.
C10_SeverityClassification ==
    sevOut # "none" =>
        /\ sevOut \in {"high", "medium", "low"}
        /\ sevOut = StatedSeverity(sevIn)
        /\ sevIn.ruleId = Str("aws-access-token") => sevOut = "high"
        /\ /\ sevIn.ruleId = Str("generic-api-key")
           /\ sevIn.description \in
                  {Undef, Str("Generic API Key"), Str("Generic Api Key"), Str("JWT")}
           => sevOut = "medium"
        /\ /\ sevIn.description = Str("Generic Api Key")
           /\ sevIn.ruleId \in {Str("custom-rule"), Str("slack-bot-token"), Undef}
           => sevOut = "low"
        /\ sevIn.description = Str("JWT") /\ sevIn.ruleId = Str("private-key")
           => sevOut = "high"

\* C10's case: determineSeverity has classified description 'Generic Api Key'
\* with an unrecognized rule.
C10_Witness ==
    /\ sevIn = [description |-> Str("Generic Api Key"), ruleId |-> Str("custom-rule")]
    /\ sevOut = "low"

\* The repository name C11 states: the last non-empty segment of the URL's
\* path, a '.git' at its end dropped, and 'unknown' when the text is no URL with
\* such a segment.
EndsWith(s, p) == Len(s) >= Len(p) /\ SubSeq(s, Len(s) - Len(p) + 1, Len(s)) = p
RECURSIVE DropTrailingSlashes(_)
DropTrailingSlashes(s) ==
    IF s # "" /\ CharAt(s, Len(s)) = "/"
    THEN DropTrailingSlashes(SubSeq(s, 1, Len(s) - 1))
    ELSE s
StatedRepoName(url) ==
    LET rest == AfterScheme(url)
        path == IF Includes(rest, "/")
                THEN DropTrailingSlashes(SubSeq(rest, FirstAt(rest, "/") + 2, Len(rest)))
                ELSE ""
        segment == AfterLast(path, "/")
        name == IF EndsWith(segment, ".git")
                THEN SubSeq(segment, 1, Len(segment) - 4)
                ELSE segment
    IN  IF Includes(url, "://") /\ name # "" THEN name ELSE "unknown"

\* C11 as stated: the report's repoName is the last non-empty path segment of
\* repoUrl with only a trailing '.git' dropped, and 'unknown' for a malformed
\* URL: 'app' for .../acme/app.git, .../acme/app and .../acme/app/, a '.git'
\* inside the name kept.
C11_RepoName ==
    fmtOut.called /\ fmtOut.ok =>
        /\ fmtOut.report.repoName = StatedRepoName(fmtIn.repoUrl.v)
        /\ fmtIn.repoUrl.v \in {UrlValid, UrlDotGit, UrlTrailingSlash} =>
               fmtOut.report.repoName = "app"
        /\ fmtIn.repoUrl.v = UrlGitInside => fmtOut.report.repoName = "my.git.tools"
        /\ fmtIn.repoUrl.v = UrlNotAUrl => fmtOut.report.repoName = "unknown"

\* The secret types of the mapping table, by rule identifier.
SecretTypes == {e[2] : e \in TypeMap}
InTable(ruleId) == \E e \in TypeMap : ruleId = Str(e[1])

C13_EndToEndOneAwsKey ==
    \A r \in Requests :
        /\ Done(r)
        /\ input[r] = [method |-> "POST", bodyKind |-> "object", repoUrl |-> Str(UrlValid)]
        /\ clonedOk[r] /\ engine[r] = "exit1"
        => /\ response[r].status = 200
           /\ response[r].report = formatScanResults(EngineStdout, input[r].repoUrl).report
           /\ response[r].report.totalSecrets = 1
           /\ response[r].report.findings[1].severity = "high"
           /\ response[r].report.findings[1].secretType = "AWS Access Key"
           /\ response[r].report.findings[1].file = ".env"
           /\ response[r].report.findings[1].lineNumber = 23

\* C14 as stated: formatScanResults, called with a repoUrl that passed the
\* handler's validation, throws exactly when the scan output is not well-formed
\* JSON; for well-formed output (the empty list, a value that is no list,
\* findings without commit or other fields) it returns a report.
C14_FailsOnlyOnMalformedOutput ==
    fmtOut.called /\ fmtIn.repoUrl.t = "str" =>
        (fmtOut.ok <=> fmtIn.scanOutput.wellFormed)

GenericError == "Internal server error"
GenericMessage == "Failed to scan repository. Please try again later."

\* C15: a 500 response has details only when NODE_ENV is 'development'; when
\* it is 'production' (or anything else) the body of a 500 is the two fixed
\* texts and nothing more: no message of the error caught and no name of the
\* request's temporary directory, whichever step threw.
C15_DetailsOnlyInDevelopment ==
    \A r \in Requests :
        response[r].status = 500 =>
            /\ response[r].details # Undef => nodeEnv = Str("development")
            /\ nodeEnv # Str("development") =>
                  /\ response[r].details = Undef
                  /\ response[r].error = GenericError
                  /\ response[r].message = GenericMessage
                  /\ response[r].body = "error" /\ response[r].report = NoReport
                  /\ Acquired(r) =>
                        /\ ~Includes(response[r].error, DirPath(tmpDir[r]))
                        /\ ~Includes(response[r].message, DirPath(tmpDir[r]))

\* C15's case: in production a clone failed with an error whose message names
\* the temporary directory, and the request was answered 500.
C15_Witness ==
    \E r \in Requests :
        /\ nodeEnv = Str("production")
        /\ Done(r) /\ Acquired(r) /\ ~clonedOk[r]
        /\ pending[r].kind = "throw"
        /\ Includes(pending[r].message, DirPath(tmpDir[r]))
        /\ response[r].status = 500

InUse(r) == pc[r] \in {"clone", "scan", "format", "cleanup"}

\* C16: with several requests in flight, the requests that acquired a
\* directory have directories different from one another, every directory on
\* disk is the one directory of one request, and the directory of a request
\* that is cloning, scanning, formatting or about to clean up is on disk: no
\* other request's cleanup has removed it.
C16_OwnWorkspace ==
    /\ \A r1, r2 \in Requests :
          r1 # r2 /\ Acquired(r1) /\ Acquired(r2) => tmpDir[r1] # tmpDir[r2]
    /\ \A d \in disk : \E r \in Requests : tmpDir[r] = d
    /\ \A r \in Requests : InUse(r) => Acquired(r) /\ tmpDir[r] \in disk

\* C16's case: a request that came second has completed and its directory is
\* removed, while the request that came first is still scanning in its own.
C16_Witness ==
    \E r1, r2 \in Requests :
        /\ pc[r1] = "scan" /\ tmpDir[r1] \in disk
        /\ Done(r2) /\ Acquired(r2) /\ tmpDir[r2] > tmpDir[r1]
        /\ ~rmFailed[r2] /\ tmpDir[r2] \notin disk

\* C18: in a report, the commit of every finding is the first 7 characters
\* of the finding's Commit (all of it when it is shorter): character by
\* character a prefix, and of length exactly 7 for a Commit of 40 characters.
C18_CommitTruncation ==
    fmtOut.called /\ fmtOut.ok =>
        /\ Len(fmtOut.report.findings) = Len(fmtIn.scanOutput.val)
        /\ \A i \in 1..Len(fmtIn.scanOutput.val) :
              LET raw == fmtIn.scanOutput.val[i].Commit.v
                  commit == fmtOut.report.findings[i].commit
              IN  /\ Len(commit) = IF Len(raw) < 7 THEN Len(raw) ELSE 7
                  /\ \A k \in 1..Len(commit) : CharAt(commit, k) = CharAt(raw, k)
                  /\ Len(raw) = 40 => Len(commit) = 7

\* C18's case: a report was made of findings with a Commit of 5 characters, an
\* empty one and one of 40.
C18_Witness ==
    /\ fmtOut.called /\ fmtOut.ok
    /\ fmtIn.scanOutput = JsonText(<<FindingShortCommit, FindingEmptyCommit, MockResults[2]>>)
    /\ Len(MockResults[2].Commit.v) = 40
    /\ fmtOut.report.findings[1].commit = "abc12"
    /\ fmtOut.report.findings[2].commit = ""
    /\ fmtOut.report.findings[3].commit = "b2c3d4e"

StageOrder ==
    <<"validate", "acquire", "clone", "scan", "format", "cleanup", "respond">>
StageRank(stage) == CHOOSE k \in 1..Len(StageOrder) : StageOrder[k] = stage
Ran(r, stage) == \E i \in 1..Len(trail[r]) : trail[r][i] = stage

\* C20: the steps a scan request has taken are stages in the stated order,
\* none twice; the clone follows the acquisition, the scan a clone that
\* succeeded, the formatting a scan that gave output; after a stage that
\* failed comes the cleanup (when a directory was acquired) and the response
\* and nothing else; a request answered 200 took every stage.
C20_StageOrder ==
    \A r \in Requests :
        ScanRequest(r) =>
            LET t == trail[r]
                n == Len(t)
            IN  /\ n >= 1 /\ t[1] = "validate"
                /\ \A i \in 1..(n - 1) : StageRank(t[i]) < StageRank(t[i + 1])
                /\ \A i \in 2..n :
                      /\ t[i] = "acquire" => t[i - 1] = "validate"
                      /\ t[i] = "clone" => t[i - 1] = "acquire" /\ Acquired(r)
                      /\ t[i] = "scan" => t[i - 1] = "clone" /\ clonedOk[r]
                      /\ t[i] = "format" =>
                            t[i - 1] = "scan" /\ scanOutput[r] # NoOutput
                      /\ t[i] = "cleanup" =>
                            t[i - 1] \in {"clone", "scan", "format"} /\ Acquired(r)
                      /\ t[i] = "respond" => i = n
                /\ Ran(r, "clone") /\ ~clonedOk[r] =>
                      /\ ~Ran(r, "scan") /\ ~Ran(r, "format")
                      /\ pc[r] \in {"cleanup", "respond", "done"}
                      /\ \A i \in 1..(n - 1) : t[i] = "clone" => t[i + 1] = "cleanup"
                /\ Ran(r, "acquire") /\ pc[r] # "acquire" /\ ~Acquired(r) =>
                      t = <<"validate", "acquire", "respond">>
                /\ Done(r) => t[n] = "respond"
                /\ Done(r) /\ Acquired(r) => Ran(r, "cleanup")
                /\ response[r].status = 200 => t = StageOrder
                /\ response[r].status = 400 => t = <<"validate", "respond">>

\* C20's case: one request completed with 200 after every stage, another with
\* 500 after its clone failed, its scan and formatting skipped.
C20_Witness ==
    \E r1, r2 \in Requests :
        /\ Done(r1) /\ response[r1].status = 200 /\ trail[r1] = StageOrder
        /\ Done(r2) /\ response[r2].status = 500
        /\ trail[r2] = <<"validate", "acquire", "clone", "cleanup", "respond">>

\* C21: in a report, findings has one finding for each finding of the scan
\* output and in its order (the file and line of the i-th are those of the
\* i-th of the output), the ids are 1, 2, ..., n without gap or repetition, and
\* totalSecrets is n, the length of findings: 0 and the empty list for an
\* output without findings.
C21_FindingsMatchOutput ==
    fmtOut.called /\ fmtOut.ok =>
        LET raw == fmtIn.scanOutput.val
            report == fmtOut.report
            n == Len(raw)
        IN  /\ Len(report.findings) = n
            /\ report.totalSecrets = n
            /\ report.totalSecrets = Len(report.findings)
            /\ \A i \in 1..n :
                  /\ report.findings[i].id = i
                  /\ report.findings[i].file = raw[i].File
                  /\ report.findings[i].lineNumber = raw[i].StartLine
            /\ {report.findings[i].id : i \in 1..n} = 1..n
            /\ \A i, j \in 1..n :
                  i # j => report.findings[i].id # report.findings[j].id
            /\ n = 0 => report.totalSecrets = 0 /\ report.findings = <<>>

\* C21's case: a report was made of an output of two findings, in their
\* order and with ids 1 and 2.
C21_Witness ==
    /\ fmtOut.called /\ fmtOut.ok
    /\ fmtIn.scanOutput = JsonText(<<FindingBare, FindingCustomRule>>)
    /\ fmtOut.report.totalSecrets = 2
    /\ fmtOut.report.findings[1].id = 1 /\ fmtOut.report.findings[1].file = "notes.txt"
    /\ fmtOut.report.findings[2].id = 2 /\ fmtOut.report.findings[2].file = "pay.js"

Answered(r) == response[r] # NoResponse
Place(r, stage) == CHOOSE i \in 1..Len(trail[r]) : trail[r][i] = stage

\* C22: a request that acquired a directory has no response while its cleanup
\* is still to come or still running (the stages from the clone to the
\* cleanup); once it has one, 200 or 500, its cleanup has been called once and
\* has finished (the directory is removed, or fs.rm failed), and it has
\* finished before the response was produced.
C22_ResponseAfterCleanup ==
    \A r \in Requests :
        Acquired(r) =>
            /\ InUse(r) => ~Answered(r)
            /\ Answered(r) =>
                  /\ response[r].status \in {200, 500}
                  /\ cleanupCalls[r] = 1
                  /\ rmFailed[r] \/ tmpDir[r] \notin disk
                  /\ Ran(r, "cleanup") /\ Ran(r, "respond")
                  /\ Place(r, "cleanup") < Place(r, "respond")

\* C22's case: one request was answered 200 after its cleanup removed the
\* directory, another 500 after its cleanup failed, and neither before.
C22_Witness ==
    \E r1, r2 \in Requests :
        /\ Acquired(r1) /\ Answered(r1) /\ response[r1].status = 200
        /\ ~rmFailed[r1] /\ tmpDir[r1] \notin disk
        /\ Acquired(r2) /\ Answered(r2) /\ response[r2].status = 500
        /\ rmFailed[r2] /\ tmpDir[r2] \in disk
        /\ Place(r1, "cleanup") < Place(r1, "respond")
        /\ Place(r2, "cleanup") < Place(r2, "respond")

=============================================================================
